---- MODULE Spec2Model ----
(***************************************************************************)
(* Model of src/main.cpp: the index-tracking binary heap (Heap<T,Compare>) *)
(* instantiated with list iterators, and the MemoryManager built on it.    *)
(*                                                                         *)
(* A list node is a record [id, left, right, heap_index]; the id is the    *)
(* node's identity, i.e. what a std::list iterator (a handle) points to.   *)
(* The heap's backing vector holds ids.  Heap indices are 0-based as in    *)
(* the source; slot i of the vector is elems[i+1].                         *)
(***************************************************************************)
EXTENDS Integers, Sequences, FiniteSets, TLC

\* ---------------------------------------------------------------- bounds
MaxMemory == 2        \* memory_size ranges over 0..MaxMemory
MaxSegments == 3      \* the list never grows beyond this many nodes
HeapPool == 6         \* number of elements of the stand-alone heap
MaxQueries == 3       \* RunMemoryManager is followed for this many queries

\* ------------------------------------------------------------- constants
\* static_cast<size_t>(-1): larger than every valid index and every size.
kNullIndex == 2147483647

\* Iterator(nullptr), the handle of a failed Allocate; node ids start at 1.
NullHandle == 0

VARIABLES
  memory_segments_,   \* MemoryManager::memory_segments_ (list order)
  elements_,          \* Heap::elements_ of free_memory_segments_
  memory_size,        \* the constructor's argument
  handles,            \* handles the caller holds: returned and not yet freed
  freed,              \* handles the caller has freed and whose node still exists
  fault,              \* "none", or how the process ended
  oob,                \* the last call touched a vector slot >= size()
  call,               \* the last call: [op, arg, ret, undo, misuse, up, down]
  pre,                \* list and heap storage before the last call
  results,            \* RunMemoryManager: results[0..query_n-1]
  responses,          \* RunMemoryManager: responses
  requests            \* the queries processed: [query, outcome, live]

vars == <<memory_segments_, elements_, memory_size, handles, freed, fault,
          oob, call, pre, results, responses, requests>>

\* ------------------------------------------------------------ MemorySegment
MemorySegment(id, left, right) ==
  [id |-> id, left |-> left, right |-> right, heap_index |-> kNullIndex]

Size(s) == IF s.right >= s.left THEN s.right - s.left ELSE 0

\* mutant: the union keeps the bounds of the segment it is called on
Unite_Own(this, other) ==
  [ok |-> this.left = other.right \/ this.right = other.left,
   left |-> this.left, right |-> this.right]

Unite(this, other) ==
  IF this.left = other.right
    THEN [ok |-> TRUE, left |-> other.left, right |-> this.right]
  ELSE IF this.right = other.left
    THEN [ok |-> TRUE, left |-> this.left, right |-> other.right]
  ELSE [ok |-> FALSE, left |-> this.left, right |-> this.right]

\* mutant: equal sizes are not ordered by left
MemorySegmentSizeCompare_NoTie(first, second) ==
  IF Size(first) = Size(second)
    THEN FALSE
    ELSE Size(first) > Size(second)

MemorySegmentSizeCompare(first, second) ==
  IF Size(first) = Size(second)
    THEN first.left < second.left
    ELSE Size(first) > Size(second)

\* ------------------------------------------------------- list of segments
Ids(list) == {list[i].id : i \in 1..Len(list)}

Pos(list, id) == CHOOSE i \in 1..Len(list) : list[i].id = id

Deref(list, id) == list[Pos(list, id)]

\* mutant: the new node is linked after the position instead of before it
ListInsert_After(list, p, seg) ==
  SubSeq(list, 1, p) \o <<seg>> \o SubSeq(list, p + 1, Len(list))

ListInsert(list, p, seg) ==
  SubSeq(list, 1, p - 1) \o <<seg>> \o SubSeq(list, p, Len(list))

ListErase(list, p) ==
  SubSeq(list, 1, p - 1) \o SubSeq(list, p + 1, Len(list))

MemorySegmentsHeapObserver(list, segment, new_index) ==
  [list EXCEPT ![Pos(list, segment)].heap_index = new_index]

\* ---------------------------------------------------------------- Heap
\* The machine state threaded through one call:
\*   list   the segment list (the observer writes heap_index into it)
\*   elems  the vector's storage; slots >= size keep what was last written
\*   size   elements_.size()
\*   fault  "none" | "abort" (checked operator[]) | "throw" | "dangling"
\*   oob    a slot >= size was touched
\*   checked  the build checks operator[] (_GLIBCXX_ASSERTIONS)
\*   ret    the return value of the last function that returns one
\*   up, down  swaps done by the last SiftUp and the last SiftDown
Machine(list, elems, checked) ==
  [list |-> list, elems |-> elems, size |-> Len(elems), fault |-> "none",
   oob |-> FALSE, checked |-> checked, ret |-> kNullIndex,
   up |-> 0, down |-> 0]

Parent(index) == IF index # 0 THEN (index - 1) \div 2 ELSE index

LeftSon(size, index) ==
  IF index < size \div 2 THEN 2 * index + 1 ELSE kNullIndex

RightSon(size, index) ==
  IF size > 2 /\ index < (size - 1) \div 2 THEN 2 * index + 2 ELSE kNullIndex

\* elements_[index]: reading or writing a slot at or beyond size() is
\* undefined; the storage still holds the popped element, so an unchecked
\* build sees the stale value and a checked build aborts.
Access(m, index) ==
  IF m.fault # "none" \/ index < m.size THEN m
  ELSE IF m.checked THEN [m EXCEPT !.fault = "abort", !.oob = TRUE]
  ELSE [m EXCEPT !.oob = TRUE]

CompareElements(m, first_index, second_index) ==
  MemorySegmentSizeCompare(Deref(m.list, m.elems[first_index + 1]),
                           Deref(m.list, m.elems[second_index + 1]))

NotifyIndexChange(m, element, new_element_index) ==
  IF m.fault # "none" THEN m
  ELSE IF element \in Ids(m.list)
    THEN [m EXCEPT !.list =
            MemorySegmentsHeapObserver(m.list, element, new_element_index)]
    ELSE [m EXCEPT !.fault = "dangling"]

SwapElements(m, first_index, second_index) ==
  LET a  == Access(Access(m, first_index), second_index)
      x  == m.elems[first_index + 1]
      y  == m.elems[second_index + 1]
      n1 == NotifyIndexChange(a, x, second_index)
      n2 == NotifyIndexChange(n1, y, first_index)
  IN IF n2.fault # "none" THEN n2
     ELSE [n2 EXCEPT !.elems = [m.elems EXCEPT ![first_index + 1] = y,
                                               ![second_index + 1] = x]]

\* mutant: the element is swapped with its parent before being compared
SiftUp_Blind(m, index) ==
  IF m.fault # "none" \/ index = 0 \/ index >= m.size
    THEN [m EXCEPT !.up = 0, !.ret = index]
    ELSE [SwapElements(m, index, Parent(index))
            EXCEPT !.up = 1, !.ret = Parent(index)]

\* mutant: nothing ever moves toward the root
SiftUp_Stay(m, index) == [m EXCEPT !.up = 0, !.ret = index]

RECURSIVE SiftUpLoop(_, _, _)
SiftUpLoop(m, index, new_index) ==
  IF m.fault # "none" THEN m
  ELSE IF index = 0 THEN [m EXCEPT !.ret = new_index]
  ELSE LET a == Access(Access(m, index), Parent(index))
       IN IF a.fault # "none" THEN a
          ELSE IF CompareElements(a, index, Parent(index))
            THEN SiftUpLoop([SwapElements(a, index, Parent(index))
                               EXCEPT !.up = a.up + 1],
                            Parent(index), new_index)
            ELSE SiftUpLoop(a, 0, index)

SiftUp(m, index) == SiftUpLoop([m EXCEPT !.up = 0], index, index)

RECURSIVE SiftDownLoop(_, _)
SiftDownLoop(m, index) ==
  IF m.fault # "none" THEN m
  ELSE IF LeftSon(m.size, index) = kNullIndex THEN m
  ELSE LET l    == LeftSon(m.size, index)
           r    == RightSon(m.size, index)
           best == IF r # kNullIndex /\ CompareElements(m, r, l) THEN r ELSE l
       IN IF CompareElements(m, best, index)
            THEN SiftDownLoop([SwapElements(m, best, index)
                                 EXCEPT !.down = m.down + 1], best)
            ELSE SiftDownLoop(m, kNullIndex)

SiftDown(m, index) == SiftDownLoop([m EXCEPT !.down = 0], index)

push(m, value) ==
  IF m.fault # "none" THEN m
  ELSE LET m1 == [m EXCEPT !.elems = Append(SubSeq(m.elems, 1, m.size), value),
                           !.size = m.size + 1]
           m2 == NotifyIndexChange(m1, value, m1.size - 1)
       IN SiftUp(m2, m1.size - 1)

\* mutant: the removed element is not told that it left the heap
erase_NoNotify(m, index) ==
  IF m.fault # "none" THEN m
  ELSE LET m1 == SwapElements(m, index, m.size - 1)
           m3 == [m1 EXCEPT !.size = m.size - 1]
       IN SiftDown(SiftUp(m3, index), index)

erase(m, index) ==
  IF m.fault # "none" THEN m
  ELSE LET m1 == SwapElements(m, index, m.size - 1)
           m2 == NotifyIndexChange(m1, m1.elems[m.size], kNullIndex)
           m3 == [m2 EXCEPT !.size = m.size - 1]
       IN SiftDown(SiftUp(m3, index), index)

top(m) == m.elems[1]

pop(m) ==
  IF m.fault # "none" THEN m
  ELSE LET m1 == SwapElements(m, 0, m.size - 1)
           m2 == NotifyIndexChange(m1, m1.elems[m.size], kNullIndex)
           m3 == [m2 EXCEPT !.size = m.size - 1]
       IN SiftDown(m3, 0)

\* elements_[0] of an empty vector. A checked operator[] aborts. Unchecked,
\* a vector that never allocated has a null data pointer and the read traps;
\* one that did allocate still holds the element removed last, `stale`.
EmptyFront(m, allocated, stale) ==
  LET a == Access(m, 0)
  IN IF a.fault # "none" THEN a
     ELSE IF ~allocated THEN [a EXCEPT !.fault = "segv"]
     ELSE [a EXCEPT !.ret = stale]

\* top() with no test for emptiness, and the caller's read of the reference
topAny(m, allocated, stale) ==
  IF m.size > 0 THEN [m EXCEPT !.ret = top(m)]
  ELSE EmptyFront(m, allocated, stale)

\* pop() of an empty heap: SwapElements(0, size() - 1) with size() - 1 wrapped
\* to size_t(-1). The observer is called on elements_[0] first; then
\* elements_[size_t(-1)], which lies before the allocation, is handed to the
\* observer, whose write through it traps.
popEmpty(m, allocated, stale) ==
  LET a == EmptyFront(m, allocated, stale)
      n == NotifyIndexChange(a, stale, kNullIndex)
  IN IF n.fault # "none" THEN n ELSE [n EXCEPT !.fault = "segv"]

\* the vector as the next call sees it
Storage(m) == SubSeq(m.elems, 1, m.size)

\* ------------------------------------------------------------ MemoryManager
\* the node a list insertion allocates: any identity not in use
FreshId(list) == CHOOSE i \in 1..(Len(list) + 1) : i \notin Ids(list)

\* mutant: a neighbour is merged whether it is free or not
AppendIfFree_Always(m, remaining, appending) ==
  IF m.fault # "none" THEN m
  ELSE LET a  == Deref(m.list, appending)
           u  == Unite(Deref(m.list, remaining), a)
           m1 == [m EXCEPT !.list[Pos(m.list, remaining)] =
                    MemorySegment(remaining, u.left, u.right)]
           m2 == IF a.heap_index # kNullIndex
                   THEN erase(m1, a.heap_index) ELSE m1
       IN IF ~u.ok THEN [m EXCEPT !.fault = "throw"]
          ELSE IF m2.fault # "none" THEN m2
          ELSE [m2 EXCEPT !.list = ListErase(m2.list, Pos(m2.list, appending))]

\* mutant: a free neighbour is left alone
AppendIfFree_Never(m, remaining, appending) == m

AppendIfFree(m, remaining, appending) ==
  IF m.fault # "none" THEN m
  ELSE IF Deref(m.list, appending).heap_index # kNullIndex
    THEN LET u  == Unite(Deref(m.list, remaining), Deref(m.list, appending))
             m1 == [m EXCEPT !.list[Pos(m.list, remaining)] =
                      MemorySegment(remaining, u.left, u.right)]
             m2 == erase(m1, Deref(m1.list, appending).heap_index)
         IN IF ~u.ok THEN [m EXCEPT !.fault = "throw"]
            ELSE IF m2.fault # "none" THEN m2
            ELSE [m2 EXCEPT !.list = ListErase(m2.list, Pos(m2.list, appending))]
    ELSE m

\* mutant: the shrunk free segment is erased from the heap and not pushed back
AllocateFrom_NoPush(m, size) ==
  LET max_free == top(m)
      seg      == Deref(m.list, max_free)
  IN IF size = Size(seg)
       THEN LET e == erase(m, seg.heap_index)
            IN IF e.fault # "none" THEN e ELSE [e EXCEPT !.ret = max_free]
       ELSE LET allocated == FreshId(m.list)
                p  == Pos(m.list, max_free)
                l1 == ListInsert(m.list, p,
                        MemorySegment(allocated, seg.left, seg.left + size))
                l2 == [l1 EXCEPT ![p + 1].left = l1[p].right]
                m1 == [m EXCEPT !.list = l2]
                m2 == erase(m1, Deref(m1.list, max_free).heap_index)
            IN IF m2.fault # "none" THEN m2 ELSE [m2 EXCEPT !.ret = allocated]

\* mutant: an exact fit is returned without leaving the heap
AllocateFrom_StaysInHeap(m, size) ==
  LET max_free == top(m)
      seg      == Deref(m.list, max_free)
  IN IF size = Size(seg)
       THEN [m EXCEPT !.ret = max_free]
       ELSE LET allocated == FreshId(m.list)
                p  == Pos(m.list, max_free)
                l1 == ListInsert(m.list, p,
                        MemorySegment(allocated, seg.left, seg.left + size))
                l2 == [l1 EXCEPT ![p + 1].left = l1[p].right]
                m1 == [m EXCEPT !.list = l2]
                m2 == erase(m1, Deref(m1.list, max_free).heap_index)
                m3 == push(m2, max_free)
            IN IF m3.fault # "none" THEN m3 ELSE [m3 EXCEPT !.ret = allocated]

\* Allocate once the top segment is known to be large enough
AllocateFrom(m, size) ==
  LET max_free == top(m)
      seg      == Deref(m.list, max_free)
  IN IF size = Size(seg)
       THEN LET e == erase(m, seg.heap_index)
            IN IF e.fault # "none" THEN e ELSE [e EXCEPT !.ret = max_free]
       ELSE LET allocated == FreshId(m.list)
                p  == Pos(m.list, max_free)
                l1 == ListInsert(m.list, p,
                        MemorySegment(allocated, seg.left, seg.left + size))
                l2 == [l1 EXCEPT ![p + 1].left = l1[p].right]
                m1 == [m EXCEPT !.list = l2]
                m2 == erase(m1, Deref(m1.list, max_free).heap_index)
                m3 == push(m2, max_free)
            IN IF m3.fault # "none" THEN m3 ELSE [m3 EXCEPT !.ret = allocated]

\* mutant: the top segment leaves the heap before its size is tested
AllocateOp_EraseFirst(m, size) ==
  IF m.size = 0 THEN [m EXCEPT !.ret = NullHandle]
  ELSE IF size > Size(Deref(m.list, top(m)))
    THEN [erase(m, 0) EXCEPT !.ret = NullHandle]
  ELSE AllocateFrom(m, size)

\* mutant: a request for no memory is turned down
AllocateOp_RejectZero(m, size) ==
  IF m.size = 0 \/ size = 0 THEN [m EXCEPT !.ret = NullHandle]
  ELSE IF size > Size(Deref(m.list, top(m))) THEN [m EXCEPT !.ret = NullHandle]
  ELSE AllocateFrom(m, size)

AllocateOp(m, size) ==
  IF m.size = 0 THEN [m EXCEPT !.ret = NullHandle]
  ELSE IF size > Size(Deref(m.list, top(m))) THEN [m EXCEPT !.ret = NullHandle]
  ELSE AllocateFrom(m, size)

\* mutant: the left neighbour is taken to be the first segment of the list
FreeOp_FromBegin(m, position) ==
  LET p  == Pos(m.list, position)
      n  == Len(m.list)
      m1 == IF p # 1 THEN AppendIfFree(m, position, m.list[1].id) ELSE m
      m2 == IF p # n THEN AppendIfFree(m1, position, m.list[p + 1].id) ELSE m1
  IN push(m2, position)

\* mutant: the right neighbour is looked at only when there is no left one
FreeOp_ElseIf(m, position) ==
  LET p  == Pos(m.list, position)
      n  == Len(m.list)
      m1 == IF p # 1 THEN AppendIfFree(m, position, m.list[p - 1].id)
            ELSE IF p # n THEN AppendIfFree(m, position, m.list[p + 1].id)
            ELSE m
  IN push(m1, position)

FreeOp(m, position) ==
  LET p  == Pos(m.list, position)
      n  == Len(m.list)
      m1 == IF p # 1 THEN AppendIfFree(m, position, m.list[p - 1].id) ELSE m
      m2 == IF p # n THEN AppendIfFree(m1, position, m.list[p + 1].id) ELSE m1
  IN push(m2, position)

\* ------------------------------------------------------------------ actions
Snapshot == [list |-> memory_segments_, heap |-> elements_]

NoSnapshot == [list |-> <<>>, heap |-> <<>>]

Running == fault = "none" /\ ~call.misuse

Constructed(size) ==
  push(Machine(<<MemorySegment(1, 0, size)>>, <<>>, FALSE), 1)

InitWith(size) ==
    /\ memory_size = size
    /\ memory_segments_ = Constructed(size).list
    /\ elements_ = Storage(Constructed(size))
    /\ handles = {}
    /\ freed = {}
    /\ fault = "none"
    /\ oob = FALSE
    /\ call = [op |-> "MemoryManager", arg |-> size, ret |-> NullHandle,
               undo |-> FALSE, misuse |-> FALSE, up |-> 0, down |-> 0]
    /\ pre = NoSnapshot
    /\ results = <<>>
    /\ responses = <<>>
    /\ requests = <<>>

Init == \E size \in 0..MaxMemory : InitWith(size)

Commit(m, op, arg, misuse) ==
  /\ memory_segments_' = m.list
  /\ elements_' = Storage(m)
  /\ fault' = m.fault
  /\ oob' = m.oob
  /\ call' = [op |-> op, arg |-> arg, misuse |-> misuse,
              undo |-> op = "Free" /\ call.op = "Allocate" /\ call.ret = arg,
              up |-> m.up, down |-> m.down,
              ret |-> IF m.fault = "none" THEN m.ret ELSE kNullIndex]
  /\ pre' = Snapshot
  /\ UNCHANGED memory_size

Splits(size) ==
  /\ elements_ # <<>>
  /\ size < Size(Deref(memory_segments_, elements_[1]))

Allocate(size, checked) ==
  /\ Running
  /\ Splits(size) => Len(memory_segments_) < MaxSegments
  /\ LET m == AllocateOp(Machine(memory_segments_, elements_, checked), size)
         got == m.fault = "none" /\ m.ret # NullHandle
     IN /\ Commit(m, "Allocate", size, FALSE)
        /\ handles' = IF got THEN handles \cup {m.ret} ELSE handles
        /\ freed' = IF got THEN freed \ {m.ret} ELSE freed
        /\ UNCHANGED <<results, responses, requests>>

Free(position, checked) ==
  /\ Running
  /\ position \in handles
  /\ LET m == FreeOp(Machine(memory_segments_, elements_, checked), position)
     IN /\ Commit(m, "Free", position, FALSE)
        /\ handles' = handles \ {position}
        /\ freed' = (freed \cup {position}) \cap Ids(m.list)
        /\ UNCHANGED <<results, responses, requests>>

\* Free on a handle the caller has already freed.
DoubleFree(position, checked) ==
  /\ Running
  /\ position \in freed
  /\ LET m == FreeOp(Machine(memory_segments_, elements_, checked), position)
     IN /\ Commit(m, "Free", position, TRUE)
        /\ UNCHANGED <<handles, freed, results, responses, requests>>

AllocateCall == \E size \in 0..(MaxMemory + 1), checked \in BOOLEAN :
                  Allocate(size, checked)

FreeCall == \E position \in handles, checked \in BOOLEAN :
              Free(position, checked)

DoubleFreeCall == \E position \in freed, checked \in BOOLEAN :
                    DoubleFree(position, checked)

Next == AllocateCall \/ FreeCall

Spec == Init /\ [][Next]_vars

NextMisuse == AllocateCall \/ FreeCall \/ DoubleFreeCall

SpecMisuse == Init /\ [][NextMisuse]_vars

\* ------------------------------------------------------ RunMemoryManager
\* A query is the number ReadMemoryManagerQueries reads: v >= 0 is
\* AllocationQuery{v}, v < 0 is FreeQuery{-v - 1}.
AllocationQuery(v) == [allocation_size |-> v]

FreeQuery(v) == [allocation_query_index |-> -v - 1]

MakeSuccessfulAllocation(position) == [success |-> TRUE, position |-> position]

MakeFailedAllocation == [success |-> FALSE, position |-> 0]

\* mutant: the position is printed as stored
OutputMemoryManagerResponses_ZeroBased(rs) ==
  [i \in 1..Len(rs) |-> IF rs[i].success THEN rs[i].position ELSE -1]

OutputMemoryManagerResponses(rs) ==
  [i \in 1..Len(rs) |-> IF rs[i].success THEN rs[i].position + 1 ELSE -1]

\* the run of section 8 of the specification, followed to its end besides
\* the runs of at most MaxQueries queries on memories of at most MaxMemory
Scenario == [memory_size |-> 10, queries |-> <<3, 3, 3, -1, 3>>]

Admitted(v) ==
  IF memory_size = Scenario.memory_size
    THEN /\ Len(results) < Len(Scenario.queries)
         /\ v = Scenario.queries[Len(results) + 1]
    ELSE Len(results) < MaxQueries

RunInit == \E size \in (0..MaxMemory) \cup {Scenario.memory_size} : InitWith(size)

\* mutant: Free is called whatever the stored result is
ShouldFree_Always(result) == TRUE

\* if (result._M_node)
ShouldFree(result) == result # NullHandle

Request(v, outcome, live) == [query |-> v, outcome |-> outcome, live |-> live]

\* one pass of the loop for an allocation query
AllocationQueryStep(v, checked) ==
  /\ Running
  /\ v >= 0
  /\ Admitted(v)
  /\ LET size == AllocationQuery(v).allocation_size
         m    == AllocateOp(Machine(memory_segments_, elements_, checked), size)
         got  == m.fault = "none" /\ m.ret # NullHandle
     IN /\ Commit(m, "Allocate", size, FALSE)
        /\ handles' = IF got THEN handles \cup {m.ret} ELSE handles
        /\ freed' = IF got THEN freed \ {m.ret} ELSE freed
        /\ results' = Append(results, IF got THEN m.ret ELSE NullHandle)
        /\ responses' =
             IF m.fault # "none" THEN responses
             ELSE IF got
               THEN Append(responses,
                           MakeSuccessfulAllocation(Deref(m.list, m.ret).left))
               ELSE Append(responses, MakeFailedAllocation)
        /\ requests' = Append(requests,
                              Request(v, IF got THEN "allocated" ELSE "failed", got))

\* one pass of the loop for a free query.  The stored iterator is used as
\* it is: it may name a request already freed (misuse), and a node that has
\* left the list since (a dangling iterator; the run ends there).
FreeQueryStep(v, checked) ==
  /\ Running
  /\ v < 0
  /\ Admitted(v)
  /\ LET index    == FreeQuery(v).allocation_query_index
         results1 == Append(results, NullHandle)
         result   == IF index < Len(results1) THEN results1[index + 1]
                     ELSE NullHandle
         valid    == index < Len(requests) /\ requests[index + 1].live
         marked   == IF index < Len(requests)
                       THEN [requests EXCEPT ![index + 1].live = FALSE]
                       ELSE requests
         called   == [op |-> "Free", arg |-> result, ret |-> kNullIndex,
                      undo |-> FALSE, misuse |-> TRUE, up |-> 0, down |-> 0]
     IN /\ results' = results1
        /\ responses' = responses
        /\ IF ~ShouldFree(result)
             THEN /\ call' = [called EXCEPT !.op = "skip", !.arg = index,
                                            !.misuse = FALSE]
                  /\ pre' = Snapshot
                  /\ requests' = Append(requests, Request(v, "free", FALSE))
                  /\ UNCHANGED <<memory_segments_, elements_, memory_size,
                                 handles, freed, fault, oob>>
           ELSE IF result \notin Ids(memory_segments_)
             THEN /\ call' = called
                  /\ pre' = Snapshot
                  /\ fault' = "dangling"
                  /\ requests' = Append(marked, Request(v, "free", FALSE))
                  /\ UNCHANGED <<memory_segments_, elements_, memory_size,
                                 handles, freed, oob>>
           ELSE LET m == FreeOp(Machine(memory_segments_, elements_, checked),
                                result)
                IN /\ Commit(m, "Free", result, ~valid)
                   /\ handles' = handles \ {result}
                   /\ freed' = (freed \cup {result}) \cap Ids(m.list)
                   /\ requests' = Append(marked, Request(v, "free", FALSE))

AllocationQueryCall ==
  \E v \in 0..(MaxMemory + 1), checked \in BOOLEAN :
    AllocationQueryStep(v, checked)

FreeQueryCall ==
  \E v \in (-MaxQueries)..(-1), checked \in BOOLEAN : FreeQueryStep(v, checked)

NextRun == AllocationQueryCall \/ FreeQueryCall

SpecRun == RunInit /\ [][NextRun]_vars

\* -------------------------------------------------- the heap on its own
\* The elements are the nodes of a list of HeapPool segments.  Lefts repeat
\* with period 3 and sizes with period 2, the two sizes being drawn from
\* KeySizes, so that distinct keys, equal sizes with different lefts and
\* fully equal keys all occur among the elements.
KeySizes == {1, 2}

KeyLeft(i) == (i - 1) % 3

HeapInit ==
  \E odd \in KeySizes, even \in KeySizes :
    /\ memory_segments_ =
         [i \in 1..HeapPool |->
            MemorySegment(i, KeyLeft(i),
                          KeyLeft(i) + (IF i % 2 = 1 THEN odd ELSE even))]
    /\ elements_ = <<>>
    /\ memory_size = 0
    /\ handles = {}
    /\ freed = {}
    /\ fault = "none"
    /\ oob = FALSE
    /\ call = [op |-> "Heap", arg |-> 0, ret |-> kNullIndex,
               undo |-> FALSE, misuse |-> FALSE, up |-> 0, down |-> 0]
    /\ pre = NoSnapshot
    /\ results = <<>>
    /\ responses = <<>>
    /\ requests = <<>>

HeapCommit(m, op, arg) ==
  /\ memory_segments_' = m.list
  /\ elements_' = Storage(m)
  /\ fault' = m.fault
  /\ oob' = m.oob
  /\ call' = [op |-> op, arg |-> arg, misuse |-> FALSE, undo |-> FALSE,
              up |-> m.up, down |-> m.down,
              ret |-> IF m.fault = "none" THEN m.ret ELSE kNullIndex]
  /\ UNCHANGED <<memory_size, handles, freed, pre, results, responses,
                 requests>>

HeapPush(value, checked) ==
  /\ fault = "none"
  /\ Deref(memory_segments_, value).heap_index = kNullIndex
  /\ HeapCommit(push(Machine(memory_segments_, elements_, checked), value),
                "push", value)

HeapErase(index, checked) ==
  /\ fault = "none"
  /\ index < Len(elements_)
  /\ HeapCommit(erase(Machine(memory_segments_, elements_, checked), index),
                "erase", index)

HeapPop(checked) ==
  /\ fault = "none"
  /\ elements_ # <<>>
  /\ HeapCommit(pop(Machine(memory_segments_, elements_, checked)), "pop", 0)

HeapPushCall == \E value \in 1..HeapPool, checked \in BOOLEAN :
                  HeapPush(value, checked)

HeapEraseCall == \E index \in 0..(HeapPool - 1), checked \in BOOLEAN :
                   HeapErase(index, checked)

HeapPopCall == \E checked \in BOOLEAN : HeapPop(checked)

HeapNext == HeapPushCall \/ HeapEraseCall \/ HeapPopCall

SpecHeap == HeapInit /\ [][HeapNext]_vars

\* ---------------------------------------- the heap, emptiness not respected
\* the vector has allocated once anything was pushed
Allocated == call.op # "Heap"

HeapCommitAny(m, op) ==
  /\ memory_segments_' = m.list
  /\ elements_' = Storage(m)
  /\ fault' = m.fault
  /\ oob' = m.oob
  /\ call' = [op |-> op, arg |-> 0, misuse |-> elements_ = <<>>,
              undo |-> FALSE, up |-> m.up, down |-> m.down,
              ret |-> IF m.fault = "none" THEN m.ret ELSE kNullIndex]
  /\ UNCHANGED <<memory_size, handles, freed, pre, results, responses,
                 requests>>

HeapTop(stale, checked) ==
  /\ fault = "none"
  /\ HeapCommitAny(topAny(Machine(memory_segments_, elements_, checked),
                          Allocated, stale), "top")

HeapPopEmpty(stale, checked) ==
  /\ fault = "none"
  /\ elements_ = <<>>
  /\ HeapCommitAny(popEmpty(Machine(memory_segments_, elements_, checked),
                            Allocated, stale), "pop")

HeapTopCall == \E stale \in 1..HeapPool, checked \in BOOLEAN :
                 HeapTop(stale, checked)

HeapPopEmptyCall == \E stale \in 1..HeapPool, checked \in BOOLEAN :
                      HeapPopEmpty(stale, checked)

HeapNextAny == HeapNext \/ HeapTopCall \/ HeapPopEmptyCall

SpecHeapAny == HeapInit /\ [][HeapNextAny]_vars

\* ================================================================ claims
Free_(seg) == seg.heap_index # kNullIndex

Segments(list) == {list[i] : i \in 1..Len(list)}

FreeSegments(list) == {seg \in Segments(list) : Free_(seg)}

\* the last call returned: it neither threw nor was aborted by a checked
\* operator[]
Completed == fault = "none"

\* C1: after construction and after every completed Allocate/Free call of a
\* valid call sequence the list, read in list order, starts at 0, ends at
\* memory_size, has left <= right in every segment and each segment's right
\* equal to the next segment's left (sorted, no gaps, no overlaps).
Coverage(list) ==
  /\ Len(list) >= 1
  /\ list[1].left = 0
  /\ list[Len(list)].right = memory_size
  /\ \A i \in 1..Len(list) : list[i].left <= list[i].right
  /\ \A i \in 1..(Len(list) - 1) : list[i].right = list[i + 1].left

C1_Coverage == Completed => Coverage(memory_segments_)

\* a Free that merged both neighbours has completed
C1_Witness ==
  /\ Completed
  /\ call.op = "Free"
  /\ Len(pre.list) = Len(memory_segments_) + 2

\* C2: in every state reached by valid calls no two neighbouring segments of
\* the list are both free.
NoAdjacentFree(list) ==
  \A i \in 1..(Len(list) - 1) : ~(Free_(list[i]) /\ Free_(list[i + 1]))

C2_NoAdjacentFree == Completed => NoAdjacentFree(memory_segments_)

\* a Free next to exactly one free neighbour has completed and other
\* segments remain
C2_Witness ==
  /\ Completed
  /\ call.op = "Free"
  /\ Len(pre.list) = Len(memory_segments_) + 1
  /\ Len(memory_segments_) >= 2

\* C3: after every completed call a segment is referenced by the heap iff its
\* heap_index is not kNullIndex, then exactly once and in the slot heap_index
\* names; the heap references only segments of the list, and every segment
\* the caller holds a handle to has heap_index = kNullIndex.
HeapMembership(list, heap) ==
  /\ \A i \in 1..Len(heap) : heap[i] \in Ids(list)
  /\ \A seg \in Segments(list) :
       LET slots == {i \in 1..Len(heap) : heap[i] = seg.id}
       IN IF Free_(seg)
            THEN slots = {seg.heap_index + 1}
            ELSE slots = {}

C3_HeapMembership ==
  Completed =>
    /\ HeapMembership(memory_segments_, elements_)
    /\ \A h \in handles :
         /\ h \in Ids(memory_segments_)
         /\ Deref(memory_segments_, h).heap_index = kNullIndex

\* a Free pushed a segment that rose to the root past another free segment
C3_Witness ==
  /\ Completed
  /\ call.op = "Free"
  /\ Len(elements_) = 2
  /\ call.up > 0
  /\ elements_[1] = call.arg

\* C4: a completed Allocate(s) returns a handle iff some free segment had
\* size >= s; the block then starts at the left of a free segment that no
\* other free segment beats (larger size, or equal size and smaller left),
\* is s long, and is that segment itself (exact fit) or sits right before
\* its shrunken rest (split).
Beats(a, b) == Size(a) > Size(b) \/ (Size(a) = Size(b) /\ a.left < b.left)

Largest(list) ==
  {c \in FreeSegments(list) : \A f \in FreeSegments(list) : ~Beats(f, c)}

CarvedFrom(c) ==
  LET r == Deref(memory_segments_, call.ret)
  IN /\ r.left = c.left
     /\ r.right = c.left + call.arg
     /\ ~Free_(r)
     /\ IF call.arg = Size(c)
          THEN call.ret = c.id /\ Len(memory_segments_) = Len(pre.list)
          ELSE /\ c.id \in Ids(memory_segments_)
               /\ Pos(memory_segments_, c.id) = Pos(memory_segments_, call.ret) + 1
               /\ Deref(memory_segments_, c.id).left = r.right
               /\ Deref(memory_segments_, c.id).right = c.right
               /\ Free_(Deref(memory_segments_, c.id))

C4_BestFit ==
  (Completed /\ call.op = "Allocate") =>
    /\ (call.ret # NullHandle) <=>
         (\E f \in FreeSegments(pre.list) : Size(f) >= call.arg)
    /\ call.ret # NullHandle =>
         /\ call.ret \in Ids(memory_segments_)
         /\ \E c \in Largest(pre.list) : CarvedFrom(c)

\* an Allocate succeeded while two free segments of the same size fitted
C4_Witness ==
  /\ Completed
  /\ call.op = "Allocate"
  /\ call.ret # NullHandle
  /\ \E f, g \in FreeSegments(pre.list) :
       f.id # g.id /\ Size(f) = Size(g) /\ Size(f) >= call.arg

\* C5: after each completed push, erase(index < size) and pop on a
\* non-empty heap no element compares ahead of its parent, and no element
\* compares ahead of top().
HeapOrder(list, heap) ==
  \A i \in 1..(Len(heap) - 1) :
    ~MemorySegmentSizeCompare(Deref(list, heap[i + 1]),
                              Deref(list, heap[Parent(i) + 1]))

TopExtremal(list, heap) ==
  \A j \in 1..Len(heap) :
    ~MemorySegmentSizeCompare(Deref(list, heap[j]), Deref(list, heap[1]))

C5_HeapOrder ==
  Completed => /\ HeapOrder(memory_segments_, elements_)
               /\ TopExtremal(memory_segments_, elements_)

\* an erase whose SiftUp had to move the element that took the freed slot
C5_Witness ==
  /\ Completed
  /\ call.op = "erase"
  /\ call.up > 0

\* C6: Free on a handle whose segment is already free is signalled as a
\* fatal error and never puts the segment into the heap a second time.
C6_DoubleFreeFailsLoudly ==
  call.misuse =>
    /\ fault # "none"
    /\ \A i, j \in 1..Len(elements_) : elements_[i] = elements_[j] => i = j

\* C7: a successful Allocate immediately followed by a completed Free of the
\* returned handle leaves the free ranges and the allocated ranges as they
\* were before the Allocate.
Ranges(segs) == {<<seg.left, seg.right>> : seg \in segs}

FreeRanges(list) == Ranges(FreeSegments(list))

AllocatedRanges(list) == Ranges(Segments(list) \ FreeSegments(list))

C7_RoundTrip ==
  [][(call'.op = "Free" /\ call'.undo /\ fault' = "none") =>
       /\ FreeRanges(memory_segments_') = FreeRanges(pre.list)
       /\ AllocatedRanges(memory_segments_') = AllocatedRanges(pre.list)]_vars

\* the Free undid an Allocate that had split a free segment
C7_Witness ==
  /\ Completed
  /\ call.op = "Free"
  /\ call.undo
  /\ Len(memory_segments_) < Len(pre.list)

\* C8: a handle the caller holds names a segment of the list with
\* heap_index = kNullIndex, and every completed call other than Free of that
\* handle leaves the segment in the list with the same left and right.
HandlesAllocated ==
  Completed =>
    \A h \in handles :
      h \in Ids(memory_segments_) /\ ~Free_(Deref(memory_segments_, h))

HandleKept(h) ==
  /\ h \in Ids(memory_segments_')
  /\ Deref(memory_segments_', h).left = Deref(memory_segments_, h).left
  /\ Deref(memory_segments_', h).right = Deref(memory_segments_, h).right
  /\ ~Free_(Deref(memory_segments_', h))

C8_HandleStability ==
  /\ []HandlesAllocated
  /\ [][fault' = "none" =>
          \A h \in handles :
            (call'.op = "Free" /\ call'.arg = h) \/ HandleKept(h)]_vars

\* a Free merged a free neighbour while another handle was outstanding
C8_Witness ==
  /\ Completed
  /\ call.op = "Free"
  /\ Len(memory_segments_) < Len(pre.list)
  /\ handles # {}

\* C9: push returns the slot that holds the pushed value after the sift-up.
C9_PushReturnsRestingIndex ==
  (Completed /\ call.op = "push") =>
    /\ call.ret < Len(elements_)
    /\ elements_[call.ret + 1] = call.arg

\* C10: an Allocate on an empty heap or with a size larger than every free
\* segment returns the null handle, and an Allocate that returns the null
\* handle leaves the list, every heap_index and the heap storage unchanged.
C10_FailedAllocateFrame ==
  (Completed /\ call.op = "Allocate") =>
    /\ (pre.heap = <<>> \/ \A f \in FreeSegments(pre.list) : call.arg > Size(f))
         => call.ret = NullHandle
    /\ call.ret = NullHandle =>
         memory_segments_ = pre.list /\ elements_ = pre.heap

\* an Allocate failed although the heap was not empty
C10_Witness ==
  /\ Completed
  /\ call.op = "Allocate"
  /\ call.ret = NullHandle
  /\ pre.heap # <<>>

\* C11: once Allocate(memory_size) has succeeded on a fresh manager, every
\* Allocate made while the manager is in the state that call left (no Free
\* in between) returns the null handle, for every size, 0 included, and
\* leaves that state as it is.
Filled == AllocateOp(Constructed(memory_size), memory_size)

AfterFill(snapshot) ==
  /\ Filled.ret # NullHandle
  /\ snapshot.list = Filled.list
  /\ snapshot.heap = Storage(Filled)

C11_FullMemoryRejectsAll ==
  (Completed /\ call.op = "Allocate" /\ AfterFill(pre)) =>
    /\ call.ret = NullHandle
    /\ AfterFill(Snapshot)

\* Allocate(0) was refused after the whole memory had been allocated
C11_Witness ==
  /\ Completed
  /\ call.op = "Allocate"
  /\ call.arg = 0
  /\ AfterFill(pre)
  /\ call.ret = NullHandle
  /\ memory_size > 0

\* C12: a free query that refers to an allocation request that failed, or
\* to a request that was a free query (itself included), calls no
\* MemoryManager::Free and leaves the list and the heap as they were.
LastRequest == requests[Len(requests)]

RefersToNothing ==
  /\ requests # <<>>
  /\ LastRequest.outcome = "free"
  /\ FreeQuery(LastRequest.query).allocation_query_index < Len(requests)
  /\ requests[FreeQuery(LastRequest.query).allocation_query_index + 1].outcome
       \in {"failed", "free"}

C12_FreeOfNothingIsNoOp ==
  RefersToNothing =>
    /\ Completed
    /\ call.op = "skip"
    /\ memory_segments_ = pre.list
    /\ elements_ = pre.heap

\* a free query named an earlier allocation request that had failed
C12_Witness ==
  /\ RefersToNothing
  /\ requests[FreeQuery(LastRequest.query).allocation_query_index + 1].outcome
       = "failed"
  /\ call.op = "skip"

\* C13: the responses are one per allocation query, in query order, none
\* for a free query; a successful one carries the left of the block just
\* allocated and is printed as left + 1, a failed one is printed as -1; the
\* run of the scenario prints 1, 4, 7, 1.
IsAllocation(r) == r.query >= 0

AllocationRequests == SelectSeq(requests, IsAllocation)

OnePerAllocation ==
  /\ Len(responses) = Len(AllocationRequests)
  /\ \A i \in 1..Len(responses) :
       /\ responses[i].success <=> AllocationRequests[i].outcome = "allocated"
       /\ OutputMemoryManagerResponses(responses)[i] =
            IF AllocationRequests[i].outcome = "allocated"
              THEN responses[i].position + 1 ELSE -1

ResponseAdded ==
  IF call'.op = "Allocate"
    THEN /\ Len(responses') = Len(responses) + 1
         /\ SubSeq(responses', 1, Len(responses)) = responses
         /\ call'.ret # NullHandle =>
              responses'[Len(responses')].position =
                Deref(memory_segments_', call'.ret).left
    ELSE responses' = responses

ScenarioDone ==
  /\ memory_size = Scenario.memory_size
  /\ Len(results) = Len(Scenario.queries)

C13_Responses ==
  /\ [](Completed => OnePerAllocation)
  /\ [][fault' = "none" => ResponseAdded]_vars
  /\ [](ScenarioDone =>
          OutputMemoryManagerResponses(responses) = <<1, 4, 7, 1>>)

\* the scenario has run to its end
C13_Witness == Completed /\ ScenarioDone /\ Len(responses) = 4

\* C14: a completed Free(h) on an allocated handle replaces h's segment and
\* each immediate neighbour that was free by one segment spanning their
\* union, at the place of the leftmost of them; the list shrinks by the
\* number of free neighbours, each merged neighbour is gone from the list
\* and from the heap, every other segment keeps its place and bounds, and h
\* is in the heap exactly once.
Bounds(seg) == <<seg.id, seg.left, seg.right>>

Occurrences(heap, id) == Cardinality({i \in 1..Len(heap) : heap[i] = id})

MergedAround(before, after, heap, h) ==
  LET p  == Pos(before, h)
      n  == Len(before)
      lo == IF p > 1 /\ Free_(before[p - 1]) THEN p - 1 ELSE p
      hi == IF p < n /\ Free_(before[p + 1]) THEN p + 1 ELSE p
      k  == hi - lo
  IN /\ Len(after) = n - k
     /\ after[lo].id = h
     /\ after[lo].left = before[lo].left
     /\ after[lo].right = before[hi].right
     /\ \A i \in 1..(lo - 1) : Bounds(after[i]) = Bounds(before[i])
     /\ \A i \in (hi + 1)..n : Bounds(after[i - k]) = Bounds(before[i])
     /\ \A i \in {lo, hi} \ {p} :
          before[i].id \notin Ids(after) /\ Occurrences(heap, before[i].id) = 0
     /\ Occurrences(heap, h) = 1

C14_FreeMerges ==
  (Completed /\ call.op = "Free") =>
    /\ Len(elements_) = Len(pre.heap) + 1 - (Len(pre.list) - Len(memory_segments_))
    /\ MergedAround(pre.list, memory_segments_, elements_, call.arg)

\* a Free collapsed three segments into the only one, which is in the heap
C14_Witness ==
  /\ Completed
  /\ call.op = "Free"
  /\ Len(pre.list) = 3
  /\ Len(memory_segments_) = 1
  /\ elements_ = <<call.arg>>

\* C15: a completed Allocate(size) that finds size < top.size inserts the new
\* allocated segment [top.left, top.left + size) immediately before the free
\* segment, shrinks the free segment to [top.left + size, top.right), keeps
\* it in the heap once at a place consistent with its new size, and returns
\* the new segment's handle; with size = top.size the list is unchanged, the
\* top segment is gone from the heap and is the handle returned.
SplitOff(before, after, heap, t, size, ret) ==
  LET p   == Pos(before, t)
      seg == before[p]
  IN /\ Len(after) = Len(before) + 1
     /\ ret \notin Ids(before)
     /\ Bounds(after[p]) = <<ret, seg.left, seg.left + size>>
     /\ ~Free_(after[p])
     /\ Bounds(after[p + 1]) = <<t, seg.left + size, seg.right>>
     /\ \A i \in 1..(p - 1) : Bounds(after[i]) = Bounds(before[i])
     /\ \A i \in (p + 1)..Len(before) : Bounds(after[i + 1]) = Bounds(before[i])
     /\ Occurrences(heap, t) = 1
     /\ Len(heap) = Len(pre.heap)
     /\ HeapMembership(after, heap)
     /\ HeapOrder(after, heap)
     /\ TopExtremal(after, heap)

TakenWhole(before, after, heap, t, ret) ==
  /\ Len(after) = Len(before)
  /\ \A i \in 1..Len(before) : Bounds(after[i]) = Bounds(before[i])
  /\ ret = t
  /\ ~Free_(Deref(after, t))
  /\ Occurrences(heap, t) = 0
  /\ Len(heap) = Len(pre.heap) - 1

C16_UniteNeverThrows == fault # "throw"

\* a Free that merged both neighbours while a zero-length segment was in the list
C16_Witness ==
  /\ Completed
  /\ call.op = "Free"
  /\ Len(pre.list) = Len(memory_segments_) + 2
  /\ \E i \in 1..Len(pre.list) : Size(pre.list[i]) = 0

\* C17: top() or pop() called on an empty heap ends in a fatal error, without
\* reading or writing the backing storage and without calling the observer.
C17_EmptyHeapFailsLoudly ==
  (call.misuse /\ call.op \in {"top", "pop"}) => fault # "none"

\* C18 as claimed: in erase(index), of the SiftUp(index) and SiftDown(index)
\* that follow the removal exactly one performs no swap.
C18_ExactlyOneNoOp ==
  (Completed /\ call.op = "erase") => ((call.up = 0) # (call.down = 0))

\* C18 as amended: in erase(index), at least one of the SiftUp(index) and
\* SiftDown(index) that follow the removal performs no swap; both may be
\* no-ops.
C18_AtLeastOneNoOp ==
  call.op = "erase" => (call.up = 0 \/ call.down = 0)

\* an erase below the last slot after which the moved element stayed where
\* it was put: neither sift swapped
C18_Witness ==
  /\ Completed
  /\ call.op = "erase"
  /\ call.arg < Len(elements_)
  /\ call.up = 0
  /\ call.down = 0

\* C19: no erase the manager issues from Allocate or AppendIfFree reads or
\* writes a storage slot at or beyond the heap's size; erasing the last slot
\* (index = size - 1 > 0 before the removal) is included.
C19_EraseInBounds ==
  (Completed /\ call.op \in {"Allocate", "Free"}) => ~oob

\* C20: Allocate(0) succeeds iff the free heap is non-empty; it then returns
\* an allocated zero-length segment [l, l) placed at the left end l of the
\* chosen free segment, the sizes of the free segments add up to what they
\* did before, and coverage, no-adjacent-free and heap membership hold after
\* it and after a completed later Free of the zero-length handle.
RECURSIVE FreeSizeSum(_)
FreeSizeSum(list) ==
  IF list = <<>> THEN 0
  ELSE (IF Free_(Head(list)) THEN Size(Head(list)) ELSE 0)
         + FreeSizeSum(Tail(list))

Invariants(list, heap) ==
  /\ Coverage(list)
  /\ NoAdjacentFree(list)
  /\ HeapMembership(list, heap)

ZeroLengthAt(list, ret, chosen, l) ==
  LET r == Deref(list, ret)
  IN /\ r.left = l
     /\ r.right = l
     /\ ~Free_(r)
     /\ ret = chosen \/ Pos(list, ret) + 1 = Pos(list, chosen)

C20_AllocateZero ==
  /\ (Completed /\ call.op = "Allocate" /\ call.arg = 0) =>
       /\ call.ret # NullHandle <=> pre.heap # <<>>
       /\ call.ret # NullHandle =>
            ZeroLengthAt(memory_segments_, call.ret, pre.heap[1],
                         Deref(pre.list, pre.heap[1]).left)
       /\ FreeSizeSum(memory_segments_) = FreeSizeSum(pre.list)
       /\ Invariants(memory_segments_, elements_)
  /\ (/\ Completed
      /\ call.op = "Free"
      /\ Size(Deref(pre.list, call.arg)) = 0) =>
       /\ Invariants(memory_segments_, elements_)
       /\ FreeSizeSum(memory_segments_) = FreeSizeSum(pre.list)

\* the zero-length segment an Allocate(0) had carved off has been freed again
C20_Witness ==
  /\ Completed
  /\ call.op = "Free"
  /\ Size(Deref(pre.list, call.arg)) = 0
  /\ Len(pre.list) >= 2

====
